---- MODULE Spec2Model ----
(***************************************************************************)
(* Model of the CloudWatchLogs widget of lambda-forge's log TUI            *)
(* (src/lambda_forge/logs/tui/ui/widgets/cloudwatch_log.py).               *)
(*                                                                         *)
(* One CloudWatchLogs widget per monitored lambda lives in its own TabPane *)
(* of one TabbedContent.  Textual runs every handler (the interval         *)
(* callback update_logs, on_show) to completion on one event loop, so each *)
(* handler is one atomic action.  The log source (logs_api.get_logs) is an *)
(* external collaborator: it is modelled as an append-only record sequence *)
(* per lambda that grows by itself, and a call of it may raise.            *)
(***************************************************************************)
EXTENDS Naturals, Sequences, FiniteSets, TLC

\* The monitored lambdas: lambda_name of each widget (and the id of its tab).
Sources == {"alpha", "beta"}

\* Bound of the model: the most records the log source holds, all lambdas
\* together.
MaxLogs == 4

VARIABLES
    remote,       \* remote[w]: the record sequence logs_api.get_logs(w) returns
    logs,         \* logs[w]: self.logs
    new_logs,     \* new_logs[w]: self.new_logs
    options,      \* options[w]: self.log_list._options
    display,      \* display[w]: self.log_list.display
    label,        \* label[w]: tab_pane.label, a sequence of text pieces
    active,       \* tabbed_content.active: the id of the active tab
    focus,        \* the widget whose log_list was last asked to take focus
    app_running,  \* FALSE once an exception has escaped a handler
    fetched,      \* history: all_logs of the last completed poll of w
    batches,      \* history: per poll since logs[w] last grew, the records it
                  \* fetched for the first time
    event         \* history: what the last step was and what it did

vars == <<remote, logs, new_logs, options, display, label, active, focus,
          app_running, fetched, batches, event>>

----------------------------------------------------------------------------
\* Pure helpers.

\* Python's s[n:] on a list.
SliceFrom(s, n) == SubSeq(s, n + 1, Len(s))

\* s is a prefix of t, element by element.
IsPrefix(s, t) == Len(s) <= Len(t) /\ SubSeq(t, 1, Len(s)) = s

\* A log record as the widget sees it: its place in the source (which makes
\* every record of one lambda distinct) and its error classification.
LogEntry(n, err) == [id |-> n, is_error |-> err]

\* len([log for log in s if log.is_error])
RECURSIVE CountErrors(_)
CountErrors(s) ==
    IF s = <<>> THEN 0
    ELSE (IF Head(s).is_error THEN 1 ELSE 0) + CountErrors(Tail(s))

\* One piece of a rich Text: the lambda's name, literal text, or a count
\* marker in a component style.
Piece(kind, text, n) == [kind |-> kind, text |-> text, n |-> n]

\* The label update_tab_label assigns for lambda `name` with pending `nl`.
TabLabelCountingAll(name, nl) ==
    LET errors == CountErrors(nl)
        non_errors == Len(nl)
        err_part == IF errors > 0
                    THEN <<Piece("error", "log-error", errors)>> ELSE <<>>
        info_part == IF non_errors > 0
                     THEN <<Piece("info", "log-info", non_errors)>> ELSE <<>>
        marks == err_part \o info_part
        post_attach == IF marks # <<>>
                       THEN <<Piece("lit", " ", 0)>> \o marks ELSE <<>>
    IN  IF nl # <<>>
        THEN <<Piece("name", name, 0), Piece("lit", " [ ", 0)>>
             \o post_attach \o <<Piece("lit", " ] ", 0)>>
        ELSE <<Piece("name", name, 0)>>

TabLabelAlwaysBracketed(name, nl) ==
    LET errors == CountErrors(nl)
        non_errors == Len(nl) - errors
        err_part == IF errors > 0
                    THEN <<Piece("error", "log-error", errors)>> ELSE <<>>
        info_part == IF non_errors > 0
                     THEN <<Piece("info", "log-info", non_errors)>> ELSE <<>>
        marks == err_part \o info_part
        post_attach == IF marks # <<>>
                       THEN <<Piece("lit", " ", 0)>> \o marks ELSE <<>>
    IN  <<Piece("name", name, 0), Piece("lit", " [ ", 0)>>
        \o post_attach \o <<Piece("lit", " ] ", 0)>>

TabLabel(name, nl) ==
    LET errors == CountErrors(nl)
        non_errors == Len(nl) - errors
        err_part == IF errors > 0
                    THEN <<Piece("error", "log-error", errors)>> ELSE <<>>
        info_part == IF non_errors > 0
                     THEN <<Piece("info", "log-info", non_errors)>> ELSE <<>>
        marks == err_part \o info_part
        post_attach == IF marks # <<>>
                       THEN <<Piece("lit", " ", 0)>> \o marks ELSE <<>>
    IN  IF nl # <<>>
        THEN <<Piece("name", name, 0), Piece("lit", " [ ", 0)>>
             \o post_attach \o <<Piece("lit", " ] ", 0)>>
        ELSE <<Piece("name", name, 0)>>

\* reset_logs on a widget's (logs, new_logs): extend, clear, relabel.
ResetLogsReplacing(name, lg, nl) ==
    [logs |-> nl, new_logs |-> <<>>, label |-> TabLabel(name, <<>>)]

ResetLogsKeepingPending(name, lg, nl) ==
    [logs |-> lg \o nl, new_logs |-> nl, label |-> TabLabel(name, nl)]

ResetLogs(name, lg, nl) ==
    [logs |-> lg \o nl, new_logs |-> <<>>, label |-> TabLabel(name, <<>>)]

\* self.parent_tab.id == self.tabbed_content.active
IsActiveTabAlways(w) == TRUE

IsActiveTabNever(w) == FALSE

IsActiveTab(w) == w = active

\* self.new_logs = all_logs[len(self.logs):]
PendingUnsliced(w, all_logs) == all_logs

PendingPastListed(w, all_logs) == SliceFrom(all_logs, Len(options[w]))

PendingAppending(w, all_logs) ==
    new_logs[w] \o SliceFrom(all_logs, Len(logs[w]))

PendingOf(w, all_logs) == SliceFrom(all_logs, Len(logs[w]))

\* if not self.new_logs: return
NothingNewNever(nl) == FALSE

NothingNew(nl) == nl = <<>>

\* The records the loop of update_logs lists: all_logs[len(_options):]
UnlistedAll(w, all_logs) == all_logs

UnlistedOf(w, all_logs) == SliceFrom(all_logs, Len(options[w]))

\* The count the label shows for marker `kind` (0 when it has no such marker).
RECURSIVE Shown(_, _)
Shown(lab, kind) ==
    IF lab = <<>> THEN 0
    ELSE (IF Head(lab).kind = kind THEN Head(lab).n ELSE 0)
         + Shown(Tail(lab), kind)

\* The concatenation of a sequence of sequences.
RECURSIVE Flatten(_)
Flatten(ss) == IF ss = <<>> THEN <<>> ELSE Head(ss) \o Flatten(Tail(ss))

\* The number of records the log source holds for the lambdas of S.
RECURSIVE TotalRecords(_, _)
TotalRecords(r, S) ==
    IF S = {} THEN 0
    ELSE LET w == CHOOSE x \in S : TRUE
         IN  Len(r[w]) + TotalRecords(r, S \ {w})

\* No element occurs twice in s.
NoDuplicates(s) == \A i, j \in 1..Len(s) : s[i] = s[j] => i = j

\* History of the last step: the handler (op) and widget (src) that ran, the
\* length of the delta update_logs computed, the number of calls of
\* update_tab_label it made, whether it was a completed poll that directly
\* followed a completed poll of the same widget that computed a non-empty
\* delta, whether the label its first call of update_tab_label assigned
\* carried a badge suffix, and the number of records it fetched for the first
\* time.
Event(op, w, delta, relabels, follows, badged, fresh) ==
    [op |-> op, src |-> w, delta |-> delta, relabels |-> relabels,
     follows |-> follows, badged |-> badged, fresh |-> fresh]

\* The label carries a suffix after the lambda's name.
HasSuffix(lab) == Len(lab) > 1

\* The previous step was a completed poll of w that computed a non-empty delta.
FollowsDelivery(w) ==
    event.op = "update_logs" /\ event.src = w /\ event.delta > 0

----------------------------------------------------------------------------
\* __init__ and on_mount of every widget; each tab's label is its name.
Init ==
    /\ remote = [w \in Sources |-> <<>>]
    /\ logs = [w \in Sources |-> <<>>]
    /\ new_logs = [w \in Sources |-> <<>>]
    /\ options = [w \in Sources |-> <<>>]
    /\ display = [w \in Sources |-> FALSE]
    /\ label = [w \in Sources |-> <<Piece("name", w, 0)>>]
    /\ active \in Sources
    /\ focus = active
    /\ app_running = TRUE
    /\ fetched = [w \in Sources |-> <<>>]
    /\ batches = [w \in Sources |-> <<>>]
    /\ event = Event("init", "", 0, 0, FALSE, FALSE, 0)

\* The log source gains one record for lambda w (append-only collaborator).
RemoteAppend(w, err) ==
    /\ TotalRecords(remote, Sources) < MaxLogs
    /\ remote' = [remote EXCEPT
                    ![w] = Append(@, LogEntry(Len(remote[w]) + 1, err))]
    /\ event' = Event("remote", "", 0, 0, FALSE, FALSE, 0)
    /\ UNCHANGED <<logs, new_logs, options, display, label, active, focus,
                   app_running, fetched, batches>>

\* update_logs of widget w, get_logs returning the source's records.
UpdateLogsSharedPending(w) ==
    /\ app_running
    /\ LET nl == PendingOf(w, remote[w])
       IN  /\ new_logs' = [v \in Sources |-> nl]
           /\ fetched' = [fetched EXCEPT ![w] = remote[w]]
           /\ event' = Event("update_logs", w, Len(nl), 0,
                             FollowsDelivery(w), FALSE, 0)
    /\ UNCHANGED <<remote, logs, options, display, label, active, focus,
                   app_running, batches>>

UpdateLogs(w) ==
    /\ app_running
    /\ LET all_logs == remote[w]
           nl == PendingOf(w, all_logs)
           fresh == SliceFrom(all_logs, Len(fetched[w]))
           received == IF fresh # <<>> THEN Append(batches[w], fresh)
                       ELSE batches[w]
       IN  /\ fetched' = [fetched EXCEPT ![w] = all_logs]
           /\ IF NothingNew(nl)
              THEN /\ new_logs' = [new_logs EXCEPT ![w] = nl]
                   /\ batches' = [batches EXCEPT ![w] = received]
                   /\ event' = Event("update_logs", w, Len(nl), 0,
                                     FollowsDelivery(w), FALSE, Len(fresh))
                   /\ UNCHANGED <<logs, options, display, label>>
              ELSE LET added == UnlistedOf(w, all_logs)
                       flushed == ResetLogs(w, logs[w], nl)
                   IN  /\ options' = [options EXCEPT ![w] = @ \o added]
                       /\ display' = [display EXCEPT
                                        ![w] = IF added # <<>> THEN TRUE ELSE @]
                       /\ IF IsActiveTab(w)
                          THEN /\ logs' = [logs EXCEPT ![w] = flushed.logs]
                               /\ new_logs' = [new_logs EXCEPT
                                                 ![w] = flushed.new_logs]
                               /\ label' = [label EXCEPT ![w] = flushed.label]
                               /\ batches' = [batches EXCEPT ![w] = <<>>]
                               /\ event' = Event("update_logs", w, Len(nl), 2,
                                                 FollowsDelivery(w),
                                                 HasSuffix(TabLabel(w, nl)),
                                                 Len(fresh))
                          ELSE /\ logs' = logs
                               /\ new_logs' = [new_logs EXCEPT ![w] = nl]
                               /\ label' = [label EXCEPT
                                              ![w] = TabLabel(w, nl)]
                               /\ batches' = [batches EXCEPT ![w] = received]
                               /\ event' = Event("update_logs", w, Len(nl), 1,
                                                 FollowsDelivery(w),
                                                 HasSuffix(TabLabel(w, nl)),
                                                 Len(fresh))
    /\ UNCHANGED <<remote, active, focus, app_running>>

\* update_logs of widget w, get_logs raising: nothing in update_logs catches
\* the exception, so it leaves the interval callback before any assignment
\* and ends the application.
UpdateLogsFetchError(w) ==
    /\ app_running
    /\ app_running' = FALSE
    /\ event' = Event("fetch_error", w, 0, 0, FALSE, FALSE, 0)
    /\ UNCHANGED <<remote, logs, new_logs, options, display, label, active,
                   focus, fetched, batches>>

\* The user makes tab t the active one; its widget is shown (on_show).
SwitchTab(t) ==
    /\ app_running
    /\ t # active
    /\ active' = t
    /\ focus' = t
    /\ event' = Event("show", t, 0, 0, FALSE, FALSE, 0)
    /\ UNCHANGED <<remote, logs, new_logs, options, display, label,
                   app_running, fetched, batches>>

Next ==
    \/ \E w \in Sources, err \in BOOLEAN : RemoteAppend(w, err)
    \/ \E w \in Sources : UpdateLogs(w)
    \/ \E w \in Sources : UpdateLogsFetchError(w)
    \/ \E t \in Sources : SwitchTab(t)

Spec == Init /\ [][Next]_vars

\* on_mount schedules update_logs of every widget every LOGS_UPDATE_INTERVAL
\* seconds for as long as the application runs: a poll that stays possible is
\* eventually made.
FairSpec == Spec /\ \A w \in Sources : WF_vars(UpdateLogs(w))

----------------------------------------------------------------------------
\* The widget state of lambda w that a user or a later handler can observe.
Observable(w) == <<logs[w], new_logs[w], options[w], display[w], label[w]>>

\* The last step was a completed poll (update_logs) of widget w.
Polled(w) == event.op = "update_logs" /\ event.src = w

\* C1: append-only settled. In every step (a poll, the flush inside it, a tab
\* switch, a failed fetch) the settled sequence logs of every source before
\* the step is an in-order prefix of logs after it: it never shrinks and no
\* entry in it is removed or reordered.
C1_AppendOnlySettled ==
    [][\A w \in Sources : IsPrefix(logs[w], logs'[w])]_vars

\* C1 witness: a poll has just flushed entries into a logs that already held
\* entries from an earlier flush.
C1_SecondFlush ==
    \E w \in Sources :
        /\ Polled(w) /\ event.relabels = 2
        /\ Len(logs[w]) > event.delta

\* C2: invariant I2 as claimed. Whenever a source's tab is the active one its
\* pending sequence new_logs is empty, also right after a tab switch.
C2_ActiveHasNoPending ==
    \A w \in Sources : w = active => new_logs[w] = <<>>

\* C3: flush-on-activate as claimed. The step that activates tab t leaves
\* new_logs of t empty and logs of t equal to logs before the step followed by
\* new_logs before the step.
C3_FlushOnActivate ==
    [][\A t \in Sources :
          SwitchTab(t) =>
              /\ new_logs'[t] = <<>>
              /\ logs'[t] = logs[t] \o new_logs[t]]_vars

\* C4: invariant I1. For every source, logs followed by new_logs is exactly the
\* record sequence its last completed poll fetched: logs is a prefix of it and
\* new_logs the remaining suffix, nothing missing, duplicated or reordered.
C4_SettledPendingSplitFetched ==
    \A w \in Sources :
        /\ logs[w] \o new_logs[w] = fetched[w]
        /\ IsPrefix(logs[w], fetched[w])
        /\ NoDuplicates(logs[w] \o new_logs[w])

\* C4 witness: a completed poll left a non-empty settled prefix and a
\* non-empty pending suffix.
C4_PrefixAndSuffix ==
    \E w \in Sources :
        Polled(w) /\ logs[w] # <<>> /\ new_logs[w] # <<>>

C6_FetchFailureIsNoOp ==
    [][\A w \in Sources :
          UpdateLogsFetchError(w) =>
              /\ UNCHANGED <<logs, new_logs, options, display, label>>
              /\ app_running']_vars

\* C7: inactive invariant. A completed poll of a tab that is not the active
\* one and that computes a non-empty delta leaves logs unchanged, and the
\* records it fetched for the first time are appended to new_logs.
C7_InactiveAbsorb ==
    [][\A w \in Sources :
          (UpdateLogs(w) /\ w # active /\ event'.delta > 0) =>
              /\ logs'[w] = logs[w]
              /\ new_logs'[w]
                   = new_logs[w] \o SliceFrom(remote[w], Len(fetched[w]))
              /\ new_logs'[w] # <<>>]_vars

\* C7 witness: a poll of an inactive tab has just absorbed a non-empty delta.
C7_InactivePollDelivered ==
    \E w \in Sources :
        Polled(w) /\ w # active /\ event.delta > 0 /\ new_logs[w] # <<>>

\* C8: badge accuracy. In every state between handlers the error count and the
\* non-error count the tab label of a source shows are the numbers of entries
\* of new_logs with is_error true and with is_error false.
C8_BadgeAccuracy ==
    \A w \in Sources :
        /\ Shown(label[w], "error") = CountErrors(new_logs[w])
        /\ Shown(label[w], "info") = Len(new_logs[w]) - CountErrors(new_logs[w])

\* C8 witness: a tab shows a badge of two errors and one non-error (the
\* spec's scenario A) for three pending entries.
C8_BadgeTwoErrorsOneInfo ==
    \E w \in Sources :
        /\ Len(new_logs[w]) = 3
        /\ Shown(label[w], "error") = 2
        /\ Shown(label[w], "info") = 1

\* C9: cumulative pending while inactive. For a tab that is not active,
\* new_logs is the concatenation, in arrival order, of the records each poll
\* since the last flush fetched for the first time, and the badge shows the
\* error and non-error totals over all of them.
C9_CumulativePending ==
    \A w \in Sources :
        w # active =>
            /\ new_logs[w] = Flatten(batches[w])
            /\ Shown(label[w], "error") = CountErrors(Flatten(batches[w]))
            /\ Shown(label[w], "info")
                 = Len(Flatten(batches[w])) - CountErrors(Flatten(batches[w]))

\* C9 witness: an inactive tab holds the records of three consecutive polls of
\* a growing source, among them an error and a non-error.
C9_ThreeCyclesPending ==
    \E w \in Sources :
        /\ Polled(w) /\ w # active
        /\ Len(batches[w]) = 3
        /\ Shown(label[w], "error") > 0 /\ Shown(label[w], "info") > 0

\* C10: idempotent empty delta. A completed poll whose computed delta is empty
\* leaves logs, new_logs, the listed options and the tab label unchanged and
\* does not call update_tab_label.
C10_EmptyDeltaNoOp ==
    [][\A w \in Sources :
          (UpdateLogs(w) /\ event'.delta = 0) =>
              /\ Observable(w)' = Observable(w)
              /\ event'.relabels = 0]_vars

\* C10 witness: a poll has computed an empty delta for a widget whose earlier
\* entries were all flushed already.
C10_EmptyDeltaPoll ==
    \E w \in Sources :
        Polled(w) /\ event.delta = 0 /\ logs[w] # <<>> /\ new_logs[w] = <<>>

\* C11 as claimed: a completed poll of the active tab that fetches k > 0
\* records for the first time appends exactly those k records to logs, and
\* new_logs is empty before, during and after it, so that no label with a
\* badge suffix is assigned at any point of the handler.
C11_ActiveAbsorbNeverPending ==
    [][\A w \in Sources :
          (UpdateLogs(w) /\ w = active /\ event'.fresh > 0) =>
              /\ logs'[w] = logs[w] \o SliceFrom(remote[w], Len(fetched[w]))
              /\ new_logs[w] = <<>> /\ new_logs'[w] = <<>>
              /\ event'.delta = 0
              /\ ~event'.badged]_vars

\* C11 as amended: such a poll appends to logs the whole delta it computed,
\* all_logs[len(logs):], which is the entries still pending before it followed
\* by the k new records in order; when it returns new_logs is empty and the
\* label has no suffix. Inside the handler new_logs holds the delta and the
\* first of its two calls of update_tab_label assigns a label with a badge.
C11_ActiveAbsorbFlushes ==
    [][\A w \in Sources :
          (UpdateLogs(w) /\ w = active /\ event'.fresh > 0) =>
              /\ logs'[w] = logs[w] \o new_logs[w]
                              \o SliceFrom(remote[w], Len(fetched[w]))
              /\ event'.delta = Len(new_logs[w]) + event'.fresh
              /\ new_logs'[w] = <<>>
              /\ ~HasSuffix(label'[w])
              /\ event'.badged /\ event'.relabels = 2]_vars

\* C11 witness: the spec's scenario B, a poll of the active tab with nothing
\* pending has just absorbed two new records.
C11_ActivePollAbsorbedTwo ==
    \E w \in Sources :
        /\ Polled(w) /\ w = active
        /\ event.fresh = 2 /\ event.delta = 2 /\ event.relabels = 2
        /\ new_logs[w] = <<>> /\ Len(logs[w]) >= 2

\* C12: single active tab. In every state at most one source's tab is the
\* active one, and in every step only the active source's logs can grow: a
\* step flushes at most one source, and two consecutive polls never flush two
\* different sources.
C12_SingleActiveTab ==
    [][/\ Cardinality({w \in Sources : IsActiveTab(w)}) <= 1
       /\ \A w \in Sources :
             logs'[w] # logs[w] =>
                 /\ w = active
                 /\ \A v \in Sources \ {w} : logs'[v] = logs[v]
                 /\ (event.op = "update_logs" /\ event.relabels = 2)
                        => event.src = w]_vars

\* C12 witness: a poll has just flushed the active source while another
\* source holds pending entries that stay unflushed.
C12_OneFlushedOtherPending ==
    \E w \in Sources :
        /\ Polled(w) /\ w = active /\ event.relabels = 2
        /\ \E v \in Sources \ {w} : new_logs[v] # <<>>

\* C13: poll cycles of one source are strictly ordered. Each update_logs runs
\* from its fetch to its last assignment as one step, so no other cycle of
\* the source and no tab switch falls between its fetch and its state update.
\* A step that is not a poll of w changes neither logs of w (the baseline of
\* its next cycle) nor what w fetched last; every poll of w finds its
\* baseline a prefix of what it fetches, fetches an extension of what the
\* cycle before fetched, and leaves logs followed by new_logs equal to the
\* fetched records, none lost and none duplicated.
C13_OrderedPollCycles ==
    [][\A w \in Sources :
          /\ ~UpdateLogs(w) =>
                 (logs'[w] = logs[w] /\ fetched'[w] = fetched[w])
          /\ UpdateLogs(w) =>
                 /\ IsPrefix(logs[w], remote[w])
                 /\ IsPrefix(fetched[w], remote[w])
                 /\ fetched'[w] = remote[w]
                 /\ logs'[w] \o new_logs'[w] = remote[w]
                 /\ NoDuplicates(logs'[w] \o new_logs'[w])]_vars

\* C13 witness: a cycle has fetched new records on top of those of an earlier
\* cycle and sliced them against a baseline the earlier cycle left behind
\* (its delta holds entries of both cycles).
C13_LaterCycleCompleted ==
    \E w \in Sources :
        /\ Polled(w) /\ event.fresh > 0
        /\ event.delta > event.fresh
        /\ Len(fetched[w]) > event.delta

\* The places of label lab that hold a marker of the given kind.
MarkersOf(lab, kind) == {i \in 1..Len(lab) : lab[i].kind = kind}

\* C14: label rendering. With e and n the numbers of error and non-error
\* entries of new_logs, the tab label of a source starts with its name, which
\* occurs once; it has a suffix if and only if e > 0 or n > 0; the suffix
\* holds one error marker, with count e, exactly when e > 0 and one non-error
\* marker, with count n, exactly when n > 0, the error marker first; with
\* both counts zero the label is the name alone.
C14_LabelRendering ==
    \A w \in Sources :
        LET e == CountErrors(new_logs[w])
            n == Len(new_logs[w]) - e
            lab == label[w]
            errs == MarkersOf(lab, "error")
            infos == MarkersOf(lab, "info")
        IN  /\ lab # <<>> /\ Head(lab) = Piece("name", w, 0)
            /\ MarkersOf(lab, "name") = {1}
            /\ HasSuffix(lab) <=> (e > 0 \/ n > 0)
            /\ (e = 0 /\ n = 0) => lab = <<Piece("name", w, 0)>>
            /\ Cardinality(errs) = (IF e > 0 THEN 1 ELSE 0)
            /\ Cardinality(infos) = (IF n > 0 THEN 1 ELSE 0)
            /\ \A i \in errs : lab[i].n = e /\ lab[i].text = "log-error"
            /\ \A i \in infos : lab[i].n = n /\ lab[i].text = "log-info"
            /\ \A i \in errs, j \in infos : i < j
            /\ HasSuffix(lab) =>
                   /\ lab[2] = Piece("lit", " [ ", 0)
                   /\ lab[Len(lab)] = Piece("lit", " ] ", 0)

\* C14 witness: a label with both markers, one error and two non-errors.
C14_LabelWithBothMarkers ==
    \E w \in Sources :
        label[w] = <<Piece("name", w, 0), Piece("lit", " [ ", 0),
                     Piece("lit", " ", 0), Piece("error", "log-error", 1),
                     Piece("info", "log-info", 2), Piece("lit", " ] ", 0)>>

\* C15: per-source isolation. A poll of source a, with or without a flush,
\* leaves logs, new_logs, the listed options and the tab label of every other
\* source b as they were, whatever the interleaving of ticks and tab switches
\* that led there.
C15_PerSourceIsolation ==
    [][\A a \in Sources : \A b \in Sources \ {a} :
          UpdateLogs(a) => Observable(b)' = Observable(b)]_vars

\* C15 witness: a poll of one source has just delivered a delta while another
\* source holds both settled and pending entries of its own.
C15_PollBesideBusySource ==
    \E a \in Sources : \E b \in Sources \ {a} :
        /\ Polled(a) /\ event.delta > 0
        /\ logs[b] # <<>> /\ new_logs[b] # <<>>

\* The tab of w is the active one and no fetch has failed.
ActiveAndPolling(w) == active = w /\ app_running

\* Everything fetched for w is settled: new_logs is empty, the label has no
\* badge suffix and logs holds every record fetched so far.
Flushed(w) ==
    new_logs[w] = <<>> /\ ~HasSuffix(label[w]) /\ logs[w] = fetched[w]

\* C16: eventual flush. Under the interval's fairness, from any point after
\* which the tab of w stays active and no fetch fails, new_logs of w
\* eventually is empty, its label without a badge suffix and every record
\* fetched for w so far (so every entry pending at activation) in logs; also
\* when the source gains no record after the activation, as in every
\* behaviour whose sources have stopped growing.
C16_EventualFlush ==
    \A w \in Sources : []([]ActiveAndPolling(w) => <>Flushed(w))

\* C16 witness: a poll of the active tab that fetched nothing new has just
\* flushed entries that were pending since before the tab was activated.
C16_FlushedWithoutNewRecords ==
    \E w \in Sources :
        /\ Polled(w) /\ w = active
        /\ event.fresh = 0 /\ event.delta > 0 /\ event.relabels = 2
        /\ new_logs[w] = <<>> /\ logs[w] = remote[w]

\* C17: the visible list tracks the fetched records whether or not the tab is
\* active. For every source the listed options are exactly the records its
\* last completed poll fetched, each once and in arrival order, so their
\* number is len(logs) + len(new_logs); the list is displayed once it holds
\* an option.
C17_ListTracksFetched ==
    \A w \in Sources :
        /\ options[w] = fetched[w]
        /\ NoDuplicates(options[w])
        /\ Len(options[w]) = Len(logs[w]) + Len(new_logs[w])
        /\ display[w] <=> options[w] # <<>>

\* C17 witness: a tab that was never flushed has been polled twice in a row
\* while inactive and lists its two pending records once each.
C17_ListedWhileInactive ==
    \E w \in Sources :
        /\ Polled(w) /\ event.follows /\ w # active
        /\ logs[w] = <<>> /\ Len(new_logs[w]) = 2
        /\ options[w] = new_logs[w] /\ display[w]

\* C18: poll idempotence while inactive. A completed poll of an inactive tab
\* that directly follows a completed poll of the same tab (the source and the
\* active tab are unchanged between the two) leaves logs, new_logs, the
\* listed options, the label and so the badge counts as the first poll left
\* them; by induction any number of such polls equals one.
C18_InactivePollIdempotent ==
    [][\A w \in Sources :
          (Polled(w) /\ UpdateLogs(w) /\ w # active) =>
              /\ Observable(w)' = Observable(w)
              /\ fetched'[w] = fetched[w]
              /\ Shown(label'[w], "error") = CountErrors(new_logs[w])
              /\ Shown(label'[w], "info")
                   = Len(new_logs[w]) - CountErrors(new_logs[w])]_vars

\* C18 witness: an inactive tab with settled entries and with pending entries
\* of both kinds has been polled twice in a row.
C18_InactivePolledTwice ==
    \E w \in Sources :
        /\ Polled(w) /\ event.follows /\ event.fresh = 0 /\ w # active
        /\ logs[w] # <<>>
        /\ Shown(label[w], "error") > 0 /\ Shown(label[w], "info") > 0

====
